---- MODULE Spec2Model ----
(***************************************************************************)
(* Macro-regime scoring engine (scripts/update_macro.py).                  *)
(*                                                                         *)
(* Numbers are fixed point.  z-scores are in tenths (z = 1.5 is 15),       *)
(* weights in hundredths (0.30 is 30), so a contribution weight * z_adj    *)
(* and score_now are in thousandths (2.0 is 2000).  exp(-k*m) is in        *)
(* ten-thousandths, so a projected score score_now * exp(-k*m) is in units *)
(* of 1e-7 (0.5 is 5000000).  A float that may be NaN is a record          *)
(* [nan, v]; a float the code guarantees to be a number is an integer.     *)
(*                                                                         *)
(* The dashboard (streamlit_app.py) is modelled for its week navigation    *)
(* and for eliminar_evento; its state is the last group of variables.      *)
(***************************************************************************)
EXTENDS Integers, Sequences, FiniteSets, TLC

VARIABLES
    zin,        \* scoring harness: the five z-scores handed to the scorer
    zout,       \* scoring harness: <<>> or <<[score_now, drivers]>>
    hin,        \* function harness: the arguments of the function applied
    hout,       \* function harness: <<>> or <<the value returned>>
    env,        \* env[r][k]: "absent" | "empty" | "set", the three settings
    client,     \* client[r]: create_client has run (19)
    pc,         \* pc[r]: position of execution r of main()
    sidx,       \* sidx[r]: number of SERIES already fetched (loop at 137-139)
    raw,        \* raw[r][k]: "none" | "data" | "empty", the fetched frames
    score_now,  \* score_now[r], thousandths
    drivers,    \* drivers[r]: the driver records of the run
    rows,       \* rows[r]: the 12 rows built at 222-231
    upserted,   \* upserted[r]: rows of the loop at 234-235 already written
    exc,        \* exc[r]: the exception caught at 259
    result,     \* result[r]: how main() ended: NoExc while running,
                \*   Returned, or the exception that left main()
    table,      \* macro_regime_monthly_us: sequence of rows
    run_log,    \* macro_regime_run_log: sequence of entries, append-only
    stdout,     \* stdout[r]: the lines printed by run r
    sidebar,    \* dashboard: [mes, anio], the two period selectboxes
    semana_actual,  \* dashboard: st.session_state.semana_actual; -1 when the
                \*   key is not in the session state
    tab2,       \* dashboard: what the last script run did in the weekly
                \*   tab: [state, idx, len]
    eventos_unicos,     \* dashboard store: the event records
    impacto_sectores,   \* dashboard store: the impact records
    retorno     \* dashboard: <<>> or <<[ok, id, nombre]>>, the last call of
                \*   eliminar_evento and the flag it returned

vars == <<zin, zout, hin, hout, env, client, pc, sidx, raw, score_now, drivers,
          rows, upserted, exc, result, table, run_log, stdout,
          sidebar, semana_actual, tab2, eventos_unicos, impacto_sectores,
          retorno>>

scoreVars == <<zin, zout>>
harnessVars == <<hin, hout>>
weekVars == <<sidebar, semana_actual, tab2>>
storeVars == <<eventos_unicos, impacto_sectores, retorno>>
appVars == <<weekVars, storeVars>>
mainVars == <<env, client, pc, sidx, raw, score_now, drivers, rows, upserted,
              exc, result, table, run_log, stdout>>

-----------------------------------------------------------------------------
(* Bounds *)

\* z inputs of the scoring harness are k * ZStep tenths, k in -MaxK..MaxK
MaxK == 4
ZStep == 10
\* executions of main() against the same store
MaxRuns == 2
\* magnitude (tenths) of a defined z-score inside a run of main()
ZRun == 20
\* series of a run of main() with enough history for a z-score
MaxDefined == 1
\* exp_decay_curve harness: scores j * SStep / 1000, |j| <= MaxSK; horizons
SStep == 250
MaxSK == 8
MaxMonths == 12
\* zscore harness: series of up to MaxLen points, windows up to MaxW
MaxLen == 30
MaxW == 112
\* yoy_from_level harness: monthly frames over months 1..MaxYoyLen
MaxYoyLen == 14
\* to_monthly harness: observations within months 1..MaxObsMonths
MaxObsMonths == 3
\* fred_observations harness: responses of up to MaxObs observations dated
\* 1..MaxDate
MaxObs == 3
MaxDate == 3
\* eliminar_evento harness: event ids 1..MaxEvents
MaxEvents == 3

-----------------------------------------------------------------------------
(* Floats *)

NaN == [nan |-> TRUE, v |-> 0]
Num(x) == [nan |-> FALSE, v |-> x]
isnan(x) == x.nan

\* direction * z  (line 173): NaN propagates through the product
Mul(c, x) == IF isnan(x) THEN NaN ELSE Num(c * x.v)

Min2(a, b) == IF a <= b THEN a ELSE b
Max2(a, b) == IF a >= b THEN a ELSE b

\* the upper bound dropped
clamp_nohi(x, lo, hi) == IF isnan(x) THEN 0 ELSE Max2(lo, x.v)

clamp(x, lo, hi) ==
    IF isnan(x) THEN 0 ELSE Max2(lo, Min2(hi, x.v))

-----------------------------------------------------------------------------
(* Configuration *)

TARGET_YEAR == 2026

\* SERIES, in dict order: the five scored series and the benchmark
SERIES == <<"CPIAUCSL", "UNRATE", "FEDFUNDS", "T10Y2Y", "BAMLH0A0HYM2", "SP500">>

\* the yield-curve polarity taken as -1 like the other four
driver_specs_same_sign == <<
    [key |-> "CPI_YOY",      direction |-> -1, weight |-> 30],
    [key |-> "UNRATE",       direction |-> -1, weight |-> 25],
    [key |-> "FEDFUNDS",     direction |-> -1, weight |-> 20],
    [key |-> "T10Y2Y",       direction |-> -1, weight |-> 15],
    [key |-> "BAMLH0A0HYM2", direction |-> -1, weight |-> 10] >>

driver_specs == <<
    [key |-> "CPI_YOY",      direction |-> -1, weight |-> 30],
    [key |-> "UNRATE",       direction |-> -1, weight |-> 25],
    [key |-> "FEDFUNDS",     direction |-> -1, weight |-> 20],
    [key |-> "T10Y2Y",       direction |->  1, weight |-> 15],
    [key |-> "BAMLH0A0HYM2", direction |-> -1, weight |-> 10] >>

NDrivers == Len(driver_specs)

-----------------------------------------------------------------------------
(* Composite scorer: lines 167-189 *)

\* the weight applied to the unclamped polarity * z
driver_record_unclamped(d, z) ==
    LET z_adj == clamp(Mul(d.direction, z), -30, 30)
        contrib == d.weight * clamp(Mul(d.direction, z), -1000, 1000)
    IN  [key |-> d.key, z_raw |-> z, z_adj |-> z_adj,
         weight |-> d.weight, contribution |-> contrib]

\* one iteration of the loop at 169-186; z is zscore(s, window=120); z_raw
\* NaN stands for None; latest_value and latest_month repeat the series'
\* last observation and are left out
driver_record(d, z) ==
    LET z_adj == clamp(Mul(d.direction, z), -30, 30)
        contrib == d.weight * z_adj
    IN  [key |-> d.key, z_raw |-> z, z_adj |-> z_adj,
         weight |-> d.weight, contribution |-> contrib]

make_drivers(zs) == [k \in 1..NDrivers |-> driver_record(driver_specs[k], zs[k])]

\* np.nansum over the list contribs (188); no element is NaN after clamp
RECURSIVE nansum(_)
nansum(xs) == IF xs = <<>> THEN 0 ELSE Head(xs) + nansum(Tail(xs))

contribs_of(ds) == [k \in 1..Len(ds) |-> ds[k].contribution]

final_score(ds) == clamp(Num(nansum(contribs_of(ds))), -2000, 2000)

compute_macro_score_and_drivers(zs) ==
    LET ds == make_drivers(zs)
    IN  [score_now |-> final_score(ds), drivers |-> ds]

-----------------------------------------------------------------------------
(* Regime projector: lines 108-122 *)

\* the bull boundary taken as exclusive
regime_from_score_strict(score) ==
    IF score > 5000000 THEN "bull"
    ELSE IF score <= -5000000 THEN "bear"
    ELSE "neutral"

regime_from_score(score) ==
    IF score >= 5000000 THEN "bull"
    ELSE IF score <= -5000000 THEN "bear"
    ELSE "neutral"

\* float(np.exp(-x)) in ten-thousandths, x = k * m in hundredths, tabulated
\* at the multiples of 0.22 that main() uses
np_exp_neg_table ==
    (0 :> 10000) @@ (22 :> 8025) @@ (44 :> 6440) @@ (66 :> 5169) @@
    (88 :> 4148) @@ (110 :> 3329) @@ (132 :> 2671) @@ (154 :> 2144) @@
    (176 :> 1720) @@ (198 :> 1381) @@ (220 :> 1108) @@ (242 :> 889) @@
    (264 :> 714)

np_exp_neg(x) == np_exp_neg_table[x]

\* the loop run over range(1, months + 1)
exp_decay_curve_from1(s, months, k) ==
    [n \in 1..months |-> s * np_exp_neg(k * n)]

\* vals[m] for m in range(months), held at index m + 1; k in hundredths
exp_decay_curve(s, months, k) ==
    [n \in 1..months |-> s * np_exp_neg(k * (n - 1))]

-----------------------------------------------------------------------------
(* Scoring harness: the scorer applied to every bounded input *)

ZInputs == {NaN} \cup {Num(k * ZStep) : k \in -MaxK..MaxK}

ComputeScore ==
    /\ zout = <<>>
    /\ zout' = <<compute_macro_score_and_drivers(zin)>>
    /\ UNCHANGED <<zin, harnessVars, mainVars, appVars>>

InitScoreVars ==
    /\ zin \in [1..NDrivers -> ZInputs]
    /\ zout = <<>>

\* the dashboard not opened, its store empty
IdleApp ==
    /\ sidebar = [mes |-> 1, anio |-> 2025]
    /\ semana_actual = -1
    /\ tab2 = [state |-> "none", idx |-> 0, len |-> 0]
    /\ eventos_unicos = {}
    /\ impacto_sectores = {}
    /\ retorno = <<>>

\* the function harness at rest
IdleHarness ==
    /\ hin = <<>>
    /\ hout = <<>>

-----------------------------------------------------------------------------
(* The store: lines 235, 251-255, 260-264 *)

\* a plain insert: the conflict key ignored
upsert_insert(t, row) == Append(t, row)

\* on conflict do nothing: the stored row with that key is kept
upsert_keep(t, row) ==
    IF \E j \in 1..Len(t) : t[j].anio = row.anio /\ t[j].mes = row.mes
    THEN t ELSE Append(t, row)

\* upsert(row, on_conflict="anio,mes"): replace the row with that key, or add it
upsert(t, row) ==
    LET hit == {j \in 1..Len(t) : t[j].anio = row.anio /\ t[j].mes = row.mes}
    IN  IF hit = {} THEN Append(t, row)
        ELSE [j \in 1..Len(t) |-> IF j \in hit THEN row ELSE t[j]]

\* insert(entry) on the run-log table
insert(t, entry) == Append(t, entry)

-----------------------------------------------------------------------------
(* main(): lines 212-265 *)

Runs == 1..MaxRuns
NSeries == Len(SERIES)
\* months=12, k=0.22 (219)
Months == 12
DecayK == 22

NoExc == [type |-> "none", at |-> 0]
Returned == [type |-> "returned", at |-> 0]
Exc(t, a) == [type |-> t, at |-> a]

\* the z-scores the five monthly series of one run can give
RunZ ==
    {zs \in [1..NDrivers -> {NaN, Num(-ZRun), Num(ZRun)}] :
        Cardinality({k \in 1..NDrivers : ~isnan(zs[k])}) <= MaxDefined}

\* enumerate(curve) without start=1
build_rows_from0(r, curve, ds) ==
    [m \in 1..Len(curve) |->
        [anio |-> TARGET_YEAR, mes |-> m - 1, score |-> curve[m],
         regime |-> regime_from_score(curve[m]), drivers |-> ds,
         updated_at |-> r]]

\* the curve walked from its last value to its first
build_rows_reversed(r, curve, ds) ==
    [m \in 1..Len(curve) |->
        [anio |-> TARGET_YEAR, mes |-> m, score |-> curve[Len(curve) + 1 - m],
         regime |-> regime_from_score(curve[Len(curve) + 1 - m]), drivers |-> ds,
         updated_at |-> r]]

\* rows 222-231; updated_at is the run's logical time
build_rows(r, curve, ds) ==
    [m \in 1..Len(curve) |->
        [anio |-> TARGET_YEAR, mes |-> m, score |-> curve[m],
         regime |-> regime_from_score(curve[m]), drivers |-> ds,
         updated_at |-> r]]

\* FRED_API_KEY, SUPABASE_URL, SUPABASE_KEY (12-14)
ConfigKeys == 1..3
AllSet(e) == \A k \in ConfigKeys : e[k] = "set"

InitMainVars ==
    /\ env = [r \in Runs |-> [k \in ConfigKeys |-> "absent"]]
    /\ client = [r \in Runs |-> FALSE]
    /\ pc = [r \in Runs |-> "off"]
    /\ sidx = [r \in Runs |-> 0]
    /\ raw = [r \in Runs |-> [k \in 1..NSeries |-> "none"]]
    /\ score_now = [r \in Runs |-> 0]
    /\ drivers = [r \in Runs |-> <<>>]
    /\ rows = [r \in Runs |-> <<>>]
    /\ upserted = [r \in Runs |-> 0]
    /\ exc = [r \in Runs |-> NoExc]
    /\ result = [r \in Runs |-> NoExc]
    /\ table = <<>>
    /\ run_log = <<>>
    /\ stdout = [r \in Runs |-> <<>>]

Ended(q) == pc[q] \in {"done", "aborted"}

\* the settings are read and the client is created without the check at 16
Startup_nocheck(r) ==
    /\ pc[r] = "off"
    /\ \A q \in Runs : q < r => Ended(q)
    /\ \E e \in [ConfigKeys -> {"absent", "empty", "set"}] :
          env' = [env EXCEPT ![r] = e]
    /\ client' = [client EXCEPT ![r] = TRUE]
    /\ pc' = [pc EXCEPT ![r] = "idle"]
    /\ UNCHANGED <<sidx, raw, score_now, drivers, rows, upserted, exc, result,
                   table, run_log, stdout, scoreVars, harnessVars, appVars>>

\* module level, 12-19: a scheduled process starts once the previous one has
\* ended, reads its three settings, raises ValueError when one is absent or
\* empty, and otherwise creates the store client
Startup(r) ==
    /\ pc[r] = "off"
    /\ \A q \in Runs : q < r => Ended(q)
    /\ \E e \in [ConfigKeys -> {"absent", "empty", "set"}] :
          /\ env' = [env EXCEPT ![r] = e]
          /\ IF AllSet(e)
             THEN /\ client' = [client EXCEPT ![r] = TRUE]
                  /\ pc' = [pc EXCEPT ![r] = "idle"]
                  /\ result' = result
             ELSE /\ client' = client
                  /\ pc' = [pc EXCEPT ![r] = "aborted"]
                  /\ result' = [result EXCEPT ![r] = Exc("ValueError", 0)]
    /\ UNCHANGED <<sidx, raw, score_now, drivers, rows, upserted, exc,
                   table, run_log, stdout, scoreVars, harnessVars, appVars>>

\* 268-269, 212-215: main() is entered
Start(r) ==
    /\ pc[r] = "idle"
    /\ \A q \in Runs : q < r => Ended(q)
    /\ pc' = [pc EXCEPT ![r] = "fetch"]
    /\ UNCHANGED <<sidx, raw, score_now, drivers, rows, upserted, exc, result,
                   table, run_log, stdout, scoreVars, harnessVars, appVars, env, client>>

\* fred_observations(sid) returns a frame: with rows, or empty (57-58, 62)
FetchOk(r) ==
    /\ pc[r] = "fetch"
    /\ \E frame \in {"data", "empty"} :
          raw' = [raw EXCEPT ![r][sidx[r] + 1] = frame]
    /\ sidx' = [sidx EXCEPT ![r] = @ + 1]
    /\ pc' = [pc EXCEPT ![r] = IF sidx[r] + 1 = NSeries THEN "normalize" ELSE "fetch"]
    /\ UNCHANGED <<score_now, drivers, rows, upserted, exc, result,
                   table, run_log, stdout, scoreVars, harnessVars, appVars, env, client>>

\* the failed request is passed over and the loop goes on with a frame
FetchFail_continue(r) ==
    /\ pc[r] = "fetch"
    /\ exc' = [exc EXCEPT ![r] = Exc("HTTPError", sidx[r] + 1)]
    /\ raw' = [raw EXCEPT ![r][sidx[r] + 1] = "data"]
    /\ sidx' = [sidx EXCEPT ![r] = @ + 1]
    /\ pc' = [pc EXCEPT ![r] = IF sidx[r] + 1 = NSeries THEN "normalize" ELSE "fetch"]
    /\ UNCHANGED <<score_now, drivers, rows, upserted, result,
                   table, run_log, stdout, scoreVars, harnessVars, appVars, env, client>>

\* requests.get / raise_for_status raises (51-52)
FetchFail(r) ==
    /\ pc[r] = "fetch"
    /\ exc' = [exc EXCEPT ![r] = Exc("HTTPError", sidx[r] + 1)]
    /\ pc' = [pc EXCEPT ![r] = "except"]
    /\ UNCHANGED <<sidx, raw, score_now, drivers, rows, upserted, result,
                   table, run_log, stdout, scoreVars, harnessVars, appVars, env, client>>

\* monthly transforms 142-156: an empty frame has no "month" column, so
\* sort_values("month") / set_index("month") raises KeyError
Normalize(r) ==
    /\ pc[r] = "normalize"
    /\ LET empties == {k \in 1..NSeries : raw[r][k] = "empty"}
       IN  IF empties = {}
           THEN /\ pc' = [pc EXCEPT ![r] = "score"]
                /\ exc' = exc
           ELSE /\ pc' = [pc EXCEPT ![r] = "except"]
                /\ exc' = [exc EXCEPT ![r] =
                      Exc("KeyError", CHOOSE k \in empties : \A j \in empties : k <= j)]
    /\ UNCHANGED <<sidx, raw, score_now, drivers, rows, upserted, result,
                   table, run_log, stdout, scoreVars, harnessVars, appVars, env, client>>

\* 158-189 on the z-scores of this run's series
Score(r) ==
    /\ pc[r] = "score"
    /\ \E zs \in RunZ :
          LET out == compute_macro_score_and_drivers(zs)
          IN  /\ score_now' = [score_now EXCEPT ![r] = out.score_now]
              /\ drivers' = [drivers EXCEPT ![r] = out.drivers]
    /\ pc' = [pc EXCEPT ![r] = "project"]
    /\ UNCHANGED <<sidx, raw, rows, upserted, exc, result,
                   table, run_log, stdout, scoreVars, harnessVars, appVars, env, client>>

\* 219-231
Project(r) ==
    /\ pc[r] = "project"
    /\ rows' = [rows EXCEPT ![r] =
          build_rows(r, exp_decay_curve(score_now[r], Months, DecayK), drivers[r])]
    /\ pc' = [pc EXCEPT ![r] = "persist"]
    /\ UNCHANGED <<sidx, raw, score_now, drivers, upserted, exc, result,
                   table, run_log, stdout, scoreVars, harnessVars, appVars, env, client>>

\* the statements after the loop indented into it: one upsert, then the log
UpsertOk_once(r) ==
    /\ pc[r] = "persist"
    /\ table' = upsert(table, rows[r][upserted[r] + 1])
    /\ upserted' = [upserted EXCEPT ![r] = @ + 1]
    /\ pc' = [pc EXCEPT ![r] = "log_success"]
    /\ UNCHANGED <<sidx, raw, score_now, drivers, rows, exc, result,
                   run_log, stdout, scoreVars, harnessVars, appVars, env, client>>

\* one iteration of 234-235 that succeeds
UpsertOk(r) ==
    /\ pc[r] = "persist"
    /\ table' = upsert(table, rows[r][upserted[r] + 1])
    /\ upserted' = [upserted EXCEPT ![r] = @ + 1]
    /\ pc' = [pc EXCEPT ![r] =
          IF upserted[r] + 1 = Len(rows[r]) THEN "log_success" ELSE "persist"]
    /\ UNCHANGED <<sidx, raw, score_now, drivers, rows, exc, result,
                   run_log, stdout, scoreVars, harnessVars, appVars, env, client>>

\* the raising execute() is swallowed and the loop is left
UpsertFail_ignored(r) ==
    /\ pc[r] = "persist"
    /\ pc' = [pc EXCEPT ![r] = "log_success"]
    /\ UNCHANGED <<sidx, raw, score_now, drivers, rows, upserted, exc, result,
                   table, run_log, stdout, scoreVars, harnessVars, appVars, env, client>>

\* one iteration of 234-235 whose execute() raises
UpsertFail(r) ==
    /\ pc[r] = "persist"
    /\ exc' = [exc EXCEPT ![r] = Exc("upsert", upserted[r] + 1)]
    /\ pc' = [pc EXCEPT ![r] = "except"]
    /\ UNCHANGED <<sidx, raw, score_now, drivers, rows, upserted, result,
                   table, run_log, stdout, scoreVars, harnessVars, appVars, env, client>>

\* sorted(drivers, key=contribution) (238): ascending and stable; d goes
\* behind the elements whose key is not larger
\* d put in front of the elements of equal key
RECURSIVE sorted_insert_before(_, _)
sorted_insert_before(xs, d) ==
    IF xs = <<>> THEN <<d>>
    ELSE IF Head(xs).contribution < d.contribution
         THEN <<Head(xs)>> \o sorted_insert_before(Tail(xs), d)
         ELSE <<d>> \o xs

RECURSIVE sorted_insert(_, _)
sorted_insert(xs, d) ==
    IF xs = <<>> THEN <<d>>
    ELSE IF Head(xs).contribution <= d.contribution
         THEN <<Head(xs)>> \o sorted_insert(Tail(xs), d)
         ELSE <<d>> \o xs

RECURSIVE sorted_by_contribution(_)
sorted_by_contribution(ds) ==
    IF Len(ds) = 0 THEN <<>>
    ELSE sorted_insert(sorted_by_contribution(SubSeq(ds, 1, Len(ds) - 1)), ds[Len(ds)])

\* 238-249; started (213) is the run's logical time; the benchmark fields of
\* extras depend on the SP500 observations only and are left out
summary(score, ds, started) ==
    LET sorted_drivers == sorted_by_contribution(ds)
        worst == sorted_drivers[1]
        best == sorted_drivers[Len(sorted_drivers)]
    IN  [score_now |-> score,
         best_driver |-> [key |-> best.key, contribution |-> best.contribution],
         worst_driver |-> [key |-> worst.key, contribution |-> worst.contribution],
         generated_at_utc |-> started]

summary_of(r) == summary(score_now[r], drivers[r], r)

\* 251-255
LogSuccessOk(r) ==
    /\ pc[r] = "log_success"
    /\ run_log' = insert(run_log,
          [status |-> "success", summary |-> <<summary_of(r)>>,
           error |-> NoExc, run |-> r])
    /\ pc' = [pc EXCEPT ![r] = "print"]
    /\ UNCHANGED <<sidx, raw, score_now, drivers, rows, upserted, exc, result,
                   table, stdout, scoreVars, harnessVars, appVars, env, client>>

LogSuccessFail(r) ==
    /\ pc[r] = "log_success"
    /\ exc' = [exc EXCEPT ![r] = Exc("insert_success", 0)]
    /\ pc' = [pc EXCEPT ![r] = "except"]
    /\ UNCHANGED <<sidx, raw, score_now, drivers, rows, upserted, result,
                   table, run_log, stdout, scoreVars, harnessVars, appVars, env, client>>

\* 257, then main returns
PrintOk(r) ==
    /\ pc[r] = "print"
    /\ stdout' = [stdout EXCEPT ![r] =
          Append(@, [ok |-> TRUE, score_now |-> score_now[r], generated_at |-> r])]
    /\ result' = [result EXCEPT ![r] = Returned]
    /\ pc' = [pc EXCEPT ![r] = "done"]
    /\ UNCHANGED <<sidx, raw, score_now, drivers, rows, upserted, exc,
                   table, run_log, scoreVars, harnessVars, appVars, env, client>>

\* 257 raises (standard output closed)
PrintFail(r) ==
    /\ pc[r] = "print"
    /\ exc' = [exc EXCEPT ![r] = Exc("print", 0)]
    /\ pc' = [pc EXCEPT ![r] = "except"]
    /\ UNCHANGED <<sidx, raw, score_now, drivers, rows, upserted, result,
                   table, run_log, stdout, scoreVars, harnessVars, appVars, env, client>>

\* the handler without its raise: the error is logged and swallowed
LogErrorOk_swallow(r) ==
    /\ pc[r] = "except"
    /\ run_log' = insert(run_log,
          [status |-> "error", summary |-> <<>>, error |-> exc[r], run |-> r])
    /\ result' = [result EXCEPT ![r] = Returned]
    /\ pc' = [pc EXCEPT ![r] = "done"]
    /\ UNCHANGED <<sidx, raw, score_now, drivers, rows, upserted, exc,
                   table, stdout, scoreVars, harnessVars, appVars, env, client>>

\* 259-265: the insert succeeds, then the bare raise re-raises e
LogErrorOk(r) ==
    /\ pc[r] = "except"
    /\ run_log' = insert(run_log,
          [status |-> "error", summary |-> <<>>, error |-> exc[r], run |-> r])
    /\ result' = [result EXCEPT ![r] = exc[r]]
    /\ pc' = [pc EXCEPT ![r] = "done"]
    /\ UNCHANGED <<sidx, raw, score_now, drivers, rows, upserted, exc,
                   table, stdout, scoreVars, harnessVars, appVars, env, client>>

\* 260-264 raises inside the handler: that exception leaves main(), 265 is
\* not reached
LogErrorFail(r) ==
    /\ pc[r] = "except"
    /\ result' = [result EXCEPT ![r] = Exc("insert_error", 0)]
    /\ pc' = [pc EXCEPT ![r] = "done"]
    /\ UNCHANGED <<sidx, raw, score_now, drivers, rows, upserted, exc,
                   table, run_log, stdout, scoreVars, harnessVars, appVars, env, client>>

-----------------------------------------------------------------------------
(* Specifications *)

Init ==
    /\ zin = <<>>
    /\ zout = <<>>
    /\ IdleHarness
    /\ InitMainVars
    /\ IdleApp

Next ==
    \E r \in Runs :
        \/ Startup(r)
        \/ Start(r)
        \/ FetchOk(r)
        \/ FetchFail(r)
        \/ Normalize(r)
        \/ Score(r)
        \/ Project(r)
        \/ UpsertOk(r)
        \/ UpsertFail(r)
        \/ LogSuccessOk(r)
        \/ LogSuccessFail(r)
        \/ PrintOk(r)
        \/ PrintFail(r)
        \/ LogErrorOk(r)
        \/ LogErrorFail(r)

Spec == Init /\ [][Next]_vars

InitScore ==
    /\ InitScoreVars
    /\ IdleHarness
    /\ InitMainVars
    /\ IdleApp

NextScore == ComputeScore

SpecScore == InitScore /\ [][NextScore]_vars

-----------------------------------------------------------------------------
(* runs of main that overlap: the processes are separate, the store is the
   one thing they share. Every process has passed startup, the fetches and
   the scorer and holds its score; from there on their steps interleave.
   The store and standard output stay available: no write fails *)

\* the z vectors of the overlapping runs: only CPI YoY may be defined
ConcZ == {zs \in RunZ : \A k \in 2..NDrivers : isnan(zs[k])}

InitConc ==
    /\ zin = <<>> /\ zout = <<>>
    /\ IdleHarness
    /\ IdleApp
    /\ env = [r \in Runs |-> [k \in ConfigKeys |-> "set"]]
    /\ client = [r \in Runs |-> TRUE]
    /\ pc = [r \in Runs |-> "project"]
    /\ sidx = [r \in Runs |-> NSeries]
    /\ raw = [r \in Runs |-> [k \in 1..NSeries |-> "data"]]
    /\ \E zz \in [Runs -> ConcZ] :
          /\ score_now = [r \in Runs |-> compute_macro_score_and_drivers(zz[r]).score_now]
          /\ drivers = [r \in Runs |-> compute_macro_score_and_drivers(zz[r]).drivers]
    /\ rows = [r \in Runs |-> <<>>]
    /\ upserted = [r \in Runs |-> 0]
    /\ exc = [r \in Runs |-> NoExc]
    /\ result = [r \in Runs |-> NoExc]
    /\ table = <<>>
    /\ run_log = <<>>
    /\ stdout = [r \in Runs |-> <<>>]

NextConc ==
    \E r \in Runs :
        \/ Project(r)
        \/ UpsertOk(r)
        \/ LogSuccessOk(r)
        \/ PrintOk(r)

SpecConc == InitConc /\ [][NextConc]_vars

-----------------------------------------------------------------------------
(* exp_decay_curve on its own: every score of a grid, every horizon up to
   MaxMonths, k = 0 and k = 0.22 *)

CurveInputs ==
    [score_now : {j * SStep : j \in -MaxSK..MaxSK},
     months : 0..MaxMonths,
     k : {0, DecayK}]

ApplyCurve ==
    /\ hout = <<>>
    /\ hout' = <<exp_decay_curve(hin.score_now, hin.months, hin.k)>>
    /\ UNCHANGED <<hin, scoreVars, mainVars, appVars>>

InitCurve ==
    /\ hin \in CurveInputs
    /\ hout = <<>>
    /\ zin = <<>> /\ zout = <<>>
    /\ InitMainVars
    /\ IdleApp

NextCurve == ApplyCurve

SpecCurve == InitCurve /\ [][NextCurve]_vars

-----------------------------------------------------------------------------
(* the success summary (238-249) on its own, for the drivers of every z
   vector of the scoring grid *)

ApplySummary ==
    /\ hout = <<>>
    /\ LET res == compute_macro_score_and_drivers(hin)
       IN  hout' = <<[drivers |-> res.drivers,
                      summary |-> summary(res.score_now, res.drivers, 0)]>>
    /\ UNCHANGED <<hin, scoreVars, mainVars, appVars>>

InitSummary ==
    /\ hin \in [1..NDrivers -> ZInputs]
    /\ hout = <<>>
    /\ zin = <<>> /\ zout = <<>>
    /\ InitMainVars
    /\ IdleApp

NextSummary == ApplySummary

SpecSummary == InitSummary /\ [][NextSummary]_vars

-----------------------------------------------------------------------------
(* the projection of main (219-231) on its own, for every score the scorer
   can return: -2.000 .. 2.000 in thousandths (189) *)

ApplyProject ==
    /\ hout = <<>>
    /\ hout' = <<build_rows(0, exp_decay_curve(hin, Months, DecayK), <<>>)>>
    /\ UNCHANGED <<hin, scoreVars, mainVars, appVars>>

InitProject ==
    /\ hin \in -2000..2000
    /\ hout = <<>>
    /\ zin = <<>> /\ zout = <<>>
    /\ InitMainVars
    /\ IdleApp

NextProject == ApplyProject

SpecProject == InitProject /\ [][NextProject]_vars

-----------------------------------------------------------------------------
(* zscore: lines 89-99. The observations are integers; the value returned is
   z in tenths, truncated toward zero, or NaN *)

RECURSIVE Sum(_)
Sum(xs) == IF xs = <<>> THEN 0 ELSE Head(xs) + Sum(Tail(xs))

NotNan(x) == ~isnan(x)

\* series.dropna() (91): the non-missing values, in order
dropna(series) ==
    LET kept == SelectSeq(series, NotNan)
    IN  [i \in 1..Len(kept) |-> kept[i].v]

\* the integer r with r <= sqrt(q) < r + 1, looked for in 0..hi
isqrt(q, hi) == CHOOSE r \in 0..hi : r * r <= q /\ q < (r + 1) * (r + 1)

\* the standard deviation taken with ddof=1
tail_z_sample(tail, last) ==
    LET m == Len(tail)
        S == Sum(tail)
        dev == Sum([i \in 1..m |-> (m * tail[i] - S) * (m * tail[i] - S)])
        num == m * last - S
    IN  IF dev = 0 THEN NaN
        ELSE LET r == isqrt((100 * (m - 1) * num * num) \div dev, 10 * m)
             IN  Num(IF num < 0 THEN -r ELSE r)

\* 95-99: mu = tail.mean(), sd = tail.std(ddof=0), NaN when sd is 0, else
\* (last - mu) / sd. With S the sum of the m values, last - mu is
\* (m*last - S)/m and sd^2 is sum((m*x - S)^2)/m^3, so
\* z^2 = m * (m*last - S)^2 / sum((m*x - S)^2)
tail_z(tail, last) ==
    LET m == Len(tail)
        S == Sum(tail)
        dev == Sum([i \in 1..m |-> (m * tail[i] - S) * (m * tail[i] - S)])
        num == m * last - S
    IN  IF dev = 0 THEN NaN
        ELSE LET r == isqrt((100 * m * num * num) \div dev, 10 * m)
             IN  Num(IF num < 0 THEN -r ELSE r)

\* the history test without the window term
zscore_min24(series, window) ==
    LET s == dropna(series)
        n == Len(s)
    IN  IF n < 24 THEN NaN
        ELSE LET tail == IF n >= window THEN SubSeq(s, n - window + 1, n) ELSE s
             IN  tail_z(tail, s[n])

\* zscore(series, window), window >= 1: `window // 4` is floor division (92);
\* tail = s.iloc[-window:] if len(s) >= window else s (94)
zscore(series, window) ==
    LET s == dropna(series)
        n == Len(s)
    IN  IF n < Max2(24, window \div 4) THEN NaN
        ELSE LET tail == IF n >= window THEN SubSeq(s, n - window + 1, n) ELSE s
             IN  tail_z(tail, s[n])

\* the series of the harness: a shape, and which positions are missing
ZShapes == {"const", "ramp", "alt", "spike"}
ZGaps == {"none", "third", "last"}

MkSeries(L, shape, gap) ==
    [i \in 1..L |->
        IF (gap = "third" /\ i % 3 = 0) \/ (gap = "last" /\ i = L) THEN NaN
        ELSE Num(CASE shape = "const" -> 5
                   [] shape = "ramp" -> i
                   [] shape = "alt" -> i % 2
                   [] shape = "spike" -> IF i >= L - 1 THEN 10 ELSE 0)]

ZWindows == {1, 2, 12, 24, 25} \cup 96..MaxW

ZscoreInputs ==
    {[series |-> MkSeries(L, shape, gap), window |-> w] :
        L \in 0..MaxLen, shape \in ZShapes, gap \in ZGaps, w \in ZWindows}

ApplyZscore ==
    /\ hout = <<>>
    /\ hout' = <<zscore(hin.series, hin.window)>>
    /\ UNCHANGED <<hin, scoreVars, mainVars, appVars>>

InitZ ==
    /\ hin \in ZscoreInputs
    /\ hout = <<>>
    /\ zin = <<>> /\ zout = <<>>
    /\ InitMainVars
    /\ IdleApp

NextZ == ApplyZscore

SpecZ == InitZ /\ [][NextZ]_vars

-----------------------------------------------------------------------------
(* yoy_from_level: lines 81-86. A frame is a sequence of rows [month, value],
   months counted from 1, at most one row per month; yoy is held in
   hundredths of a percent (12.0 % is 1200) *)

\* x.sort_values("month") (84): the row at position i is the one whose month
\* has i - 1 smaller months in the frame
sort_values_month(df) ==
    [i \in 1..Len(df) |->
        df[CHOOSE j \in 1..Len(df) :
              Cardinality({h \in 1..Len(df) : df[h].month < df[j].month}) = i - 1]]

\* fillna(method="pad"): a missing value takes the last value before it
ffill(vals) ==
    [i \in 1..Len(vals) |->
        LET before == {j \in 1..i : ~isnan(vals[j])}
        IN  IF before = {} THEN NaN
            ELSE vals[CHOOSE j \in before : \A h \in before : h <= j]]

\* Series.pct_change(periods, fill_method) (85): data / data.shift(periods) - 1
\* by row position; fill_method is "pad" by default before pandas 3 and absent
\* from pandas 3 on
pct_change(vals, periods, fill_method) ==
    LET data == IF fill_method = "pad" THEN ffill(vals) ELSE vals
    IN  [i \in 1..Len(vals) |->
            IF i <= periods \/ isnan(data[i]) \/ isnan(data[i - periods])
            THEN NaN
            ELSE Num((data[i].v * 10000) \div data[i - periods].v - 10000)]

\* yoy_from_level(monthly_df), under the pct_change of the installed pandas
yoy_from_level(monthly_df, fill_method) ==
    LET x == sort_values_month(monthly_df)
        yoy == pct_change([i \in 1..Len(x) |-> x[i].value], 12, fill_method)
        kept == SelectSeq([i \in 1..Len(x) |-> [month |-> x[i].month, yoy |-> yoy[i]]],
                          LAMBDA row : ~isnan(row.yoy))
    IN  [i \in 1..Len(kept) |-> [month |-> kept[i].month, yoy |-> kept[i].yoy.v]]

\* monthly levels 100, 101, ... for months 1..L, the row of month `absent`
\* left out and the value of month `missing` NaN (0: none), in either order
MkLevels(L, absent, missing, order) ==
    LET ms == SelectSeq([m \in 1..L |-> m], LAMBDA m : m # absent)
        n == Len(ms)
    IN  [i \in 1..n |->
            LET m == IF order = "asc" THEN ms[i] ELSE ms[n + 1 - i]
            IN  [month |-> m,
                 value |-> IF m = missing THEN NaN ELSE Num(99 + m)]]

YoyInputs ==
    {MkLevels(L, absent, missing, order) :
        L \in 0..MaxYoyLen, absent \in 0..MaxYoyLen, missing \in 0..MaxYoyLen,
        order \in {"asc", "desc"}}

ApplyYoy ==
    /\ hout = <<>>
    /\ \E fill_method \in {"pad", "none"} :
          hout' = <<yoy_from_level(hin, fill_method)>>
    /\ UNCHANGED <<hin, scoreVars, mainVars, appVars>>

InitYoy ==
    /\ hin \in YoyInputs
    /\ hout = <<>>
    /\ zin = <<>> /\ zout = <<>>
    /\ InitMainVars
    /\ IdleApp

NextYoy == ApplyYoy

SpecYoy == InitYoy /\ [][NextYoy]_vars

-----------------------------------------------------------------------------
(* to_monthly: lines 66-78. A frame is a sequence of observations
   [date |-> [m, d], value], dates ascending as fred_observations leaves them
   (61); the result is a sequence of rows [month |-> [m, d], value] *)

\* the values of the observations dated in month m, missing ones dropped
bucket(df, m) ==
    LET obs == SelectSeq(df, LAMBDA o : o.date.m = m /\ ~isnan(o.value))
    IN  [i \in 1..Len(obs) |-> obs[i].value.v]

\* resample("MS").last() / .mean() of one bucket (72, 74): NaN for a bucket
\* without a value
aggregate(b, how) ==
    IF b = <<>> THEN NaN
    ELSE IF how = "mean" THEN Num(Sum(b) \div Len(b))
    ELSE Num(b[Len(b)])

\* a group-by: only the months that hold an observation get a row
to_monthly_populated(df, how) ==
    LET ms == {df[i].date.m : i \in 1..Len(df)}
        nth(i) == CHOOSE m \in ms : Cardinality({h \in ms : h < m}) = i - 1
    IN  [i \in 1..Cardinality(ms) |->
            [month |-> [m |-> nth(i), d |-> 1],
             value |-> aggregate(bucket(df, nth(i)), how)]]

\* to_monthly(df, how): resample("MS") makes one bin per calendar month from
\* the month of the first observation to the month of the last, labelled
\* with the first day of the month
to_monthly(df, how) ==
    IF df = <<>> THEN df
    ELSE LET ms == {df[i].date.m : i \in 1..Len(df)}
             lo == CHOOSE m \in ms : \A h \in ms : m <= h
             hi == CHOOSE m \in ms : \A h \in ms : h <= m
         IN  [i \in 1..(hi - lo + 1) |->
                 [month |-> [m |-> lo + i - 1, d |-> 1],
                  value |-> aggregate(bucket(df, lo + i - 1), how)]]

\* two possible observation days per month; an observation is absent, has a
\* missing value, or has the value 100*m + 2*d
ObsDays == <<1, 15>>
ObsSlots ==
    [i \in 1..(MaxObsMonths * Len(ObsDays)) |->
        [m |-> (i + Len(ObsDays) - 1) \div Len(ObsDays),
         d |-> ObsDays[((i - 1) % Len(ObsDays)) + 1]]]

MkObservations(f) ==
    LET kept == SelectSeq([i \in 1..Len(ObsSlots) |-> i], LAMBDA i : f[i] # "absent")
    IN  [j \in 1..Len(kept) |->
            [date |-> ObsSlots[kept[j]],
             value |-> IF f[kept[j]] = "nan" THEN NaN
                       ELSE Num(100 * ObsSlots[kept[j]].m + 2 * ObsSlots[kept[j]].d)]]

MonthlyInputs ==
    {[df |-> MkObservations(f), how |-> how] :
        f \in [1..Len(ObsSlots) -> {"absent", "nan", "value"}],
        how \in {"last", "mean"}}

ApplyMonthly ==
    /\ hout = <<>>
    /\ hout' = <<to_monthly(hin.df, hin.how)>>
    /\ UNCHANGED <<hin, scoreVars, mainVars, appVars>>

InitMonthly ==
    /\ hin \in MonthlyInputs
    /\ hout = <<>>
    /\ zin = <<>> /\ zout = <<>>
    /\ InitMainVars
    /\ IdleApp

NextMonthly == ApplyMonthly

SpecMonthly == InitMonthly /\ [][NextMonthly]_vars

-----------------------------------------------------------------------------
(* fred_observations: lines 55-63, from the decoded response on. An
   observation of the response holds two strings: date, [text |-> "date",
   t |-> day number] or [text |-> "junk"], and value, [text |-> "number",
   v |-> number] or [text |-> "."]. A returned row is [date, value] with
   date 0 for NaT and value NaN-able *)

\* pd.to_datetime(x, errors="coerce") (60)
to_datetime(x) == IF x.text = "date" THEN x.t ELSE 0

\* pd.to_numeric(x, errors="coerce") (61)
to_numeric(x) == IF x.text = "number" THEN Num(x.v) ELSE NaN

\* 60-61: a row per observation, in the order of the response
coerce(obs) ==
    [i \in 1..Len(obs) |->
        [date |-> to_datetime(obs[i].date), value |-> to_numeric(obs[i].value)]]

\* df.dropna(subset=["date"]) (62)
dropna_date(df) == SelectSeq(df, LAMBDA row : row.date # 0)

\* the permutations of 1..n
Perms(n) == {p \in [1..n -> 1..n] : \A i, j \in 1..n : i # j => p[i] # p[j]}

\* sort_values("date") (62): the rows in ascending date order; the default
\* quicksort is not stable, rows of equal date come out in any order
sort_values_date(df) ==
    {[i \in 1..Len(df) |-> df[p[i]]] : p \in
        {q \in Perms(Len(df)) :
            \A i, j \in 1..Len(df) : i < j => df[q[i]].date <= df[q[j]].date}}

\* the rows left in the order of the response
fred_observations_unsorted(obs) ==
    IF obs = <<>> THEN {<<>>}
    ELSE {dropna_date(coerce(obs))}

\* the frames fred_observations may return for a response (55-63); the empty
\* response gives the empty frame (57-58)
fred_observations(obs) ==
    IF obs = <<>> THEN {<<>>}
    ELSE sort_values_date(dropna_date(coerce(obs)))

RECURSIVE SeqsUpTo(_, _)
SeqsUpTo(S, n) ==
    IF n = 0 THEN {<<>>}
    ELSE LET shorter == SeqsUpTo(S, n - 1)
         IN  shorter \cup {Append(x, e) : x \in {y \in shorter : Len(y) = n - 1}, e \in S}

RawDates ==
    {[text |-> "junk", t |-> 0]} \cup {[text |-> "date", t |-> t] : t \in 1..MaxDate}
RawValues ==
    {[text |-> ".", v |-> 0], [text |-> "number", v |-> 5], [text |-> "number", v |-> 7]}

Responses == SeqsUpTo([date : RawDates, value : RawValues], MaxObs)

ApplyFetch ==
    /\ hout = <<>>
    /\ \E df \in fred_observations(hin) : hout' = <<df>>
    /\ UNCHANGED <<hin, scoreVars, mainVars, appVars>>

InitFetch ==
    /\ hin \in Responses
    /\ hout = <<>>
    /\ zin = <<>> /\ zout = <<>>
    /\ InitMainVars
    /\ IdleApp

NextFetch == ApplyFetch

SpecFetch == InitFetch /\ [][NextFetch]_vars

-----------------------------------------------------------------------------
(* streamlit_app.py, weekly calendar tab: lines 340-367, 386-406, 552-621.
   Every user interaction makes Streamlit run the script again from the top
   with the widgets' new values; an action below is one interaction with the
   script runs it causes. Days are day-of-month numbers *)

IsLeap(y) == (y % 4 = 0 /\ y % 100 # 0) \/ y % 400 = 0

\* calendar.monthrange(anio, mes)[1] (343)
monthrange_days(y, m) ==
    IF m \in {4, 6, 9, 11} THEN 30
    ELSE IF m = 2 THEN (IF IsLeap(y) THEN 29 ELSE 28)
    ELSE 31

\* days from 2025-01-01 to the first day of month m of year y
RECURSIVE days_before_month(_, _)
days_before_month(y, m) ==
    IF m = 1 THEN (IF y = 2025 THEN 0 ELSE days_before_month(y - 1, 12) + 31)
    ELSE days_before_month(y, m - 1) + monthrange_days(y, m - 1)

\* date.weekday() (349), Monday is 0; 2025-01-01 was a Wednesday
weekday(y, m, d) == (2 + days_before_month(y, m) + d - 1) % 7

\* the while loop at 348-365 from fecha_actual on
RECURSIVE semanas_desde(_, _, _)
semanas_desde(fecha_actual, y, m) ==
    LET ultimo_dia == monthrange_days(y, m)
        lunes == fecha_actual - weekday(y, m, fecha_actual)
        inicio_semana == IF lunes < 1 THEN 1 ELSE lunes
        fin_semana == IF lunes + 6 > ultimo_dia THEN ultimo_dia ELSE lunes + 6
    IN  IF fecha_actual > ultimo_dia THEN <<>>
        ELSE <<<<inicio_semana, fin_semana>>>> \o semanas_desde(fin_semana + 1, y, m)

\* obtener_semanas_del_mes(anio, mes) (340-367)
obtener_semanas_del_mes(anio, mes) == semanas_desde(1, anio, mes)

\* the weekly tab in one script run (552-617) for the sidebar sb, the stored
\* index sa and hay = "df_filtrado is not empty": the key is created at
\* 580-581 and semanas[semana_actual] is evaluated at 606
script_run(sb, sa, hay) ==
    IF ~hay THEN [semana_actual |-> sa,
                  tab2 |-> [state |-> "empty", idx |-> 0, len |-> 0]]
    ELSE LET semanas == obtener_semanas_del_mes(sb.anio, sb.mes)
             idx == IF sa = -1 THEN 0 ELSE sa
         IN  [semana_actual |-> idx,
              tab2 |-> [state |-> IF idx < Len(semanas) THEN "week" ELSE "IndexError",
                        idx |-> idx, len |-> Len(semanas)]]

\* the page is opened: month selectbox at the current month, year at 2025
\* (390-402)
Open ==
    /\ tab2.state = "none"
    /\ \E mes \in 1..12, hay \in BOOLEAN :
          LET sb == [mes |-> mes, anio |-> 2025]
              run == script_run(sb, semana_actual, hay)
          IN  /\ sidebar' = sb
              /\ semana_actual' = run.semana_actual
              /\ tab2' = run.tab2
    /\ UNCHANGED <<scoreVars, harnessVars, mainVars, storeVars>>

\* another month is picked in the sidebar (390-395)
SelectMes ==
    /\ tab2.state # "none"
    /\ \E mes \in 1..12, hay \in BOOLEAN :
          LET sb == [sidebar EXCEPT !.mes = mes]
              run == script_run(sb, semana_actual, hay)
          IN  /\ mes # sidebar.mes
              /\ sidebar' = sb
              /\ semana_actual' = run.semana_actual
              /\ tab2' = run.tab2
    /\ UNCHANGED <<scoreVars, harnessVars, mainVars, storeVars>>

\* another year is picked in the sidebar (398-402)
SelectAnio ==
    /\ tab2.state # "none"
    /\ \E anio \in 2025..2027, hay \in BOOLEAN :
          LET sb == [sidebar EXCEPT !.anio = anio]
              run == script_run(sb, semana_actual, hay)
          IN  /\ anio # sidebar.anio
              /\ sidebar' = sb
              /\ semana_actual' = run.semana_actual
              /\ tab2' = run.tab2
    /\ UNCHANGED <<scoreVars, harnessVars, mainVars, storeVars>>

\* any other rerun: a filter, the refresh button, new data (414-433)
Rerun ==
    /\ tab2.state # "none"
    /\ \E hay \in BOOLEAN :
          LET run == script_run(sidebar, semana_actual, hay)
          IN  /\ semana_actual' = run.semana_actual
              /\ tab2' = run.tab2
    /\ UNCHANGED <<sidebar, scoreVars, harnessVars, mainVars, storeVars>>

\* "Semana Anterior" (601-603), drawn before line 606 and enabled unless the
\* index is 0: the index is decremented and the script runs again
ClickAnterior ==
    /\ tab2.state \in {"week", "IndexError"}
    /\ semana_actual # 0
    /\ LET run == script_run(sidebar, semana_actual - 1, TRUE)
       IN  /\ semana_actual' = run.semana_actual
           /\ tab2' = run.tab2
    /\ UNCHANGED <<sidebar, scoreVars, harnessVars, mainVars, storeVars>>

\* "Semana Siguiente" (611-613), drawn after line 606 and enabled unless the
\* index is len(semanas) - 1: the index is incremented and the script runs
\* again
ClickSiguiente ==
    /\ tab2.state = "week"
    /\ semana_actual # tab2.len - 1
    /\ LET run == script_run(sidebar, semana_actual + 1, TRUE)
       IN  /\ semana_actual' = run.semana_actual
           /\ tab2' = run.tab2
    /\ UNCHANGED <<sidebar, scoreVars, harnessVars, mainVars, storeVars>>

InitWeek ==
    /\ zin = <<>> /\ zout = <<>>
    /\ IdleHarness
    /\ InitMainVars
    /\ IdleApp

NextWeek ==
    \/ Open
    \/ SelectMes
    \/ SelectAnio
    \/ Rerun
    \/ ClickAnterior
    \/ ClickSiguiente

SpecWeek == InitWeek /\ [][NextWeek]_vars

-----------------------------------------------------------------------------
(* streamlit_app.py, eliminar_evento: lines 194-205, called at 943 with the
   id and the name of a listed event. An event record is [id, evento_nombre],
   an impact record [evento_tipo, sector, impacto_score]; the fields the
   function does not read are left out *)

Nombres == {"CPI", "FOMC"}
Sectores == {"General", "Tech"}

\* .delete().eq('evento_tipo', evento_nombre) (198)
delete_impactos(t, evento_nombre) == {i \in t : i.evento_tipo # evento_nombre}

\* .delete().eq('id', evento_id) (201)
delete_evento(t, evento_id) == {ev \in t : ev.id # evento_id}

\* eliminar_evento, both deletes succeed (198, 201, 203)
EliminarOk ==
    \E ev \in eventos_unicos :
        /\ impacto_sectores' = delete_impactos(impacto_sectores, ev.evento_nombre)
        /\ eventos_unicos' = delete_evento(eventos_unicos, ev.id)
        /\ retorno' = <<[ok |-> TRUE, id |-> ev.id, nombre |-> ev.evento_nombre]>>
        /\ UNCHANGED <<scoreVars, harnessVars, mainVars, weekVars>>

\* eliminar_evento, the delete at 198 raises: nothing is removed (204-205)
EliminarFailImpactos ==
    \E ev \in eventos_unicos :
        /\ retorno' = <<[ok |-> FALSE, id |-> ev.id, nombre |-> ev.evento_nombre]>>
        /\ UNCHANGED <<eventos_unicos, impacto_sectores>>
        /\ UNCHANGED <<scoreVars, harnessVars, mainVars, weekVars>>

\* eliminar_evento, the delete at 198 succeeds and the delete at 201 raises
\* (204-205)
EliminarFailEvento ==
    \E ev \in eventos_unicos :
        /\ impacto_sectores' = delete_impactos(impacto_sectores, ev.evento_nombre)
        /\ retorno' = <<[ok |-> FALSE, id |-> ev.id, nombre |-> ev.evento_nombre]>>
        /\ UNCHANGED eventos_unicos
        /\ UNCHANGED <<scoreVars, harnessVars, mainVars, weekVars>>

\* the stores the dashboard may find: every id names at most one event,
\* names may repeat (crear_noticia_externa, 213-223, does not check them)
InitDelete ==
    /\ zin = <<>> /\ zout = <<>>
    /\ IdleHarness
    /\ InitMainVars
    /\ sidebar = [mes |-> 1, anio |-> 2025]
    /\ semana_actual = -1
    /\ tab2 = [state |-> "none", idx |-> 0, len |-> 0]
    /\ \E ids \in SUBSET (1..MaxEvents) : \E nm \in [ids -> Nombres] :
          eventos_unicos = {[id |-> i, evento_nombre |-> nm[i]] : i \in ids}
    /\ impacto_sectores \in
          SUBSET [evento_tipo : Nombres, sector : Sectores, impacto_score : {3}]
    /\ retorno = <<>>

NextDelete ==
    \/ EliminarOk
    \/ EliminarFailImpactos
    \/ EliminarFailEvento

SpecDelete == InitDelete /\ [][NextDelete]_vars

-----------------------------------------------------------------------------
(* Properties of the composite scorer (SpecScore) *)

Scored == zout # <<>>
Out == zout[1]

\* sum of the contributions recorded in the driver records
RECURSIVE SumContrib(_, _)
SumContrib(ds, k) == IF k = 0 THEN 0 ELSE ds[k].contribution + SumContrib(ds, k - 1)

\* C1: for every combination of the five z-scores (any magnitude, any sign,
\* any subset undefined) the returned score_now lies in [-2, 2].
C1_ScoreInRange ==
    Scored => (Out.score_now >= -2000 /\ Out.score_now <= 2000)

\* C1 witness: an input with an undefined z and z-scores beyond 3 whose
\* contributions sum to more than 2, returned as exactly 2
C1_Witness ==
    /\ Scored
    /\ \E k \in 1..NDrivers : isnan(zin[k])
    /\ \E k \in 1..NDrivers : ~isnan(zin[k]) /\ zin[k].v < -30
    /\ SumContrib(Out.drivers, NDrivers) > 2000
    /\ Out.score_now = 2000

Clip(x, lo, hi) == IF x < lo THEN lo ELSE IF x > hi THEN hi ELSE x

\* weight * clamp(polarity * z, -3, 3), and 0 for an undefined z
Term(w, p, z) == IF z.nan THEN 0 ELSE w * Clip(p * z.v, -30, 30)

WeightedSum ==
    Term(30, -1, zin[1]) + Term(25, -1, zin[2]) + Term(20, -1, zin[3])
      + Term(15, 1, zin[4]) + Term(10, -1, zin[5])

\* C2: score_now = clamp(sum_i weight_i * clamp(polarity_i * z_i, -3, 3), -2, 2)
\* with weights 0.30, 0.25, 0.20, 0.15, 0.10 and polarities -1, -1, -1, +1, -1;
\* an undefined z contributes 0 and the other weights are not renormalized.
C2_CompositeFormula ==
    Scored => Out.score_now = Clip(WeightedSum, -2000, 2000)

\* C2 witness: one z undefined, one clamped at 3, the yield curve defined, and
\* a score strictly inside (-2, 2) that is not 0
C2_Witness ==
    /\ Scored
    /\ isnan(zin[1])
    /\ ~isnan(zin[2]) /\ zin[2].v > 30
    /\ ~isnan(zin[4]) /\ zin[4].v # 0
    /\ Out.score_now # 0
    /\ Out.score_now > -2000 /\ Out.score_now < 2000

Abs(x) == IF x < 0 THEN -x ELSE x

\* C3: in every driver record z_adj is polarity * z clamped to [-3, 3] (0 for
\* an undefined z), contribution = weight * z_adj, so |contribution| <= 3 * weight.
C3_DriverRecord ==
    Scored =>
        \A k \in 1..NDrivers :
            LET d == Out.drivers[k]
                p == driver_specs[k].direction
            IN  /\ d.z_adj >= -30 /\ d.z_adj <= 30
                /\ d.z_adj = (IF zin[k].nan THEN 0 ELSE Clip(p * zin[k].v, -30, 30))
                /\ d.contribution = d.weight * d.z_adj
                /\ Abs(d.contribution) <= 30 * d.weight

\* C3 witness: a record clamped at +3, one clamped at -3 and one of an
\* undefined z in the same result
C3_Witness ==
    /\ Scored
    /\ \E k \in 1..NDrivers :
          ~isnan(zin[k]) /\ Abs(zin[k].v) > 30 /\ Out.drivers[k].z_adj = 30
    /\ \E k \in 1..NDrivers :
          ~isnan(zin[k]) /\ Abs(zin[k].v) > 30 /\ Out.drivers[k].z_adj = -30
    /\ \E k \in 1..NDrivers : isnan(zin[k]) /\ Out.drivers[k].contribution = 0

-----------------------------------------------------------------------------
(* Properties of main() and the store (Spec) *)

TableIdx == 1..Len(table)
LogOf(r) == {j \in 1..Len(run_log) : run_log[j].run = r}
SuccessLogged(r) == \E j \in LogOf(r) : run_log[j].status = "success"
Succeeded(r) == result[r] = Returned
Failed(r) == pc[r] = "done" /\ exc[r] # NoExc
AllFetched(r) == sidx[r] = NSeries /\ \A k \in 1..NSeries : raw[r][k] # "none"
\* no later execution has written a row yet
Latest(r) == \A q \in Runs : q > r => upserted[q] = 0

\* C4: the regime label of every persisted row is a function of the row's
\* score: score >= 0.5 is "bull", score <= -0.5 is "bear", strictly between
\* is "neutral"; 0.5 and -0.5 themselves are "bull" and "bear".
C4_RegimeOfRow ==
    \A j \in TableIdx :
        /\ (table[j].score >= 5000000 => table[j].regime = "bull")
        /\ (table[j].score <= -5000000 => table[j].regime = "bear")
        /\ (table[j].score > -5000000 /\ table[j].score < 5000000
              => table[j].regime = "neutral")

\* C4 witness: a persisted row whose score is exactly 0.5, labelled "bull",
\* next to a persisted "neutral" row with a non-zero score
C4_Witness ==
    /\ \E j \in TableIdx : table[j].score = 5000000 /\ table[j].regime = "bull"
    /\ \E j \in TableIdx : table[j].score # 0 /\ table[j].regime = "neutral"

\* C5: after a run of main that returned normally (and before a later run
\* writes), the table holds for the target year exactly 12 rows, one per month
\* index 1..12 and no other, all written by that run from its one score curve.
C5_TwelveRows ==
    \A r \in Runs :
        (Succeeded(r) /\ Latest(r)) =>
            /\ Len(table) = Months
            /\ \A m \in 1..Months :
                  Cardinality({j \in TableIdx :
                      table[j].anio = TARGET_YEAR /\ table[j].mes = m}) = 1
            /\ \A j \in TableIdx :
                  /\ table[j].mes \in 1..Months
                  /\ table[j].updated_at = r
                  /\ table[j].drivers = drivers[r]
                  /\ table[j].score =
                        score_now[r] * np_exp_neg(DecayK * (table[j].mes - 1))

\* C5 witness: the second run returned normally after a first run that had
\* failed with 5 rows written
C5_Witness ==
    /\ MaxRuns >= 2
    /\ Succeeded(2)
    /\ exc[1].type = "upsert" /\ upserted[1] = 5
    /\ score_now[1] # score_now[2]

\* C6: persisting 12 rows twice for the same year leaves 12 rows, not 24: no
\* two rows of the table share a (year, month) key.
C6_UpsertIdempotent ==
    /\ \A i, j \in TableIdx :
          i # j => <<table[i].anio, table[i].mes>> # <<table[j].anio, table[j].mes>>
    /\ \A r, q \in Runs :
          (r # q /\ upserted[r] = Months /\ upserted[q] = Months)
              => Len(table) = Months

\* C6 witness: two runs have each written their 12 rows and the table holds
\* 12 rows, all those of the second
C6_Witness ==
    /\ \E r, q \in Runs : r < q /\ upserted[r] = Months /\ upserted[q] = Months
          /\ \A j \in TableIdx : table[j].updated_at = q
    /\ Len(table) = Months

\* C7: in a run the stages happen in the order fetch-all, normalize, score,
\* project, persist rows, log success, end: no row is upserted before all six
\* series are fetched and the score computed, and the success entry is written
\* only after all 12 upserts.
C7_StageOrder ==
    \A r \in Runs :
        /\ (drivers[r] # <<>> =>
              AllFetched(r) /\ \A k \in 1..NSeries : raw[r][k] = "data")
        /\ (rows[r] # <<>> => drivers[r] # <<>>)
        /\ ((upserted[r] > 0 \/ \E j \in TableIdx : table[j].updated_at = r) =>
              AllFetched(r) /\ drivers[r] # <<>> /\ rows[r] # <<>>)
        /\ (SuccessLogged(r) =>
              upserted[r] = Months /\ pc[r] \in {"print", "except", "done"})
        /\ (stdout[r] # <<>> => SuccessLogged(r))
        /\ (Succeeded(r) => stdout[r] # <<>> /\ pc[r] = "done")

\* C7 witness: a run that went through every stage and returned
C7_Witness ==
    \E r \in Runs :
        Succeeded(r) /\ SuccessLogged(r) /\ upserted[r] = Months /\ AllFetched(r)

ErrorEntry(r) ==
    \E j \in LogOf(r) :
        /\ run_log[j].status = "error"
        /\ run_log[j].summary = <<>>
        /\ run_log[j].error = exc[r]

\* the stages after the failing step did not run
Skipped(r) ==
    /\ stdout[r] = <<>>
    /\ (exc[r].type = "HTTPError" =>
          sidx[r] = exc[r].at - 1 /\ drivers[r] = <<>> /\ rows[r] = <<>>
            /\ upserted[r] = 0 /\ ~SuccessLogged(r))
    /\ (exc[r].type = "KeyError" =>
          drivers[r] = <<>> /\ rows[r] = <<>> /\ upserted[r] = 0 /\ ~SuccessLogged(r))
    /\ (exc[r].type = "upsert" =>
          upserted[r] = exc[r].at - 1 /\ ~SuccessLogged(r))
    /\ (exc[r].type = "insert_success" => ~SuccessLogged(r))

C9_OriginalPropagates ==
    \A r \in Runs :
        (Failed(r) /\ \A j \in LogOf(r) : run_log[j].status # "error")
            => result[r] = exc[r]

\* C10: every execution of main appends exactly one row to the run log,
\* whatever the outcomes of its steps: never none, never a success row and an
\* error row for the same execution.
C10_OneLogRowPerRun ==
    \A r \in Runs : pc[r] = "done" => Cardinality(LogOf(r)) = 1

NoErrorEntry(r) == \A j \in LogOf(r) : run_log[j].status # "error"
Raised(r) == result[r] \notin {NoExc, Returned}
SuccessOutcome(r) ==
    /\ Succeeded(r)
    /\ upserted[r] = Months
    /\ SuccessLogged(r)
    /\ NoErrorEntry(r)

C12_NoConfigNoEffect ==
    \A r \in Runs :
        (pc[r] # "off" /\ ~AllSet(env[r])) =>
            /\ pc[r] = "aborted"
            /\ result[r] = Exc("ValueError", 0)
            /\ ~client[r]
            /\ sidx[r] = 0 /\ \A k \in 1..NSeries : raw[r][k] = "none"
            /\ upserted[r] = 0
            /\ \A j \in TableIdx : table[j].updated_at # r
            /\ LogOf(r) = {}
            /\ stdout[r] = <<>>

\* C12 witness: a process whose SUPABASE_KEY is empty, the other two set, has
\* aborted, and a later process with all three set has run to the end
C12_Witness ==
    /\ MaxRuns >= 2
    /\ pc[1] = "aborted"
    /\ env[1] = <<"set", "set", "empty">>
    /\ client[2] /\ Succeeded(2)

C14_ShortHistoryNeverFails ==
    \A r \in Runs :
        (pc[r] = "done" /\ AllFetched(r)
            /\ exc[r].type \notin {"upsert", "insert_success", "print"})
          => SuccessOutcome(r)

\* C15: after a run that failed part-way through its upserts, a later run
\* that succeeds leaves exactly 12 rows, all of them the later run's: no row
\* of the failed run survives.
C15_PartialOverwritten ==
    \A r, q \in Runs :
        (r < q /\ exc[r].type = "upsert" /\ upserted[r] > 0
              /\ Succeeded(q) /\ Latest(q)) =>
            /\ Len(table) = Months
            /\ \A j \in TableIdx :
                  /\ table[j].mes \in 1..Months
                  /\ table[j] = rows[q][table[j].mes]
                  /\ table[j].updated_at = q

\* C15 witness: the first run failed at its 8th upsert with 7 rows written,
\* the second, with another score, succeeded
C15_Witness ==
    /\ MaxRuns >= 2
    /\ exc[1] = Exc("upsert", 8) /\ upserted[1] = 7 /\ pc[1] = "done"
    /\ Succeeded(2) /\ score_now[2] # score_now[1]
    /\ Len(table) = Months

\* exp(-0.22 * i), i = 0..12, to four decimals
C16_Decay == <<10000, 8025, 6440, 5169, 4148, 3329, 2671, 2144, 1720, 1381,
               1108, 889, 714>>

\* C16: exp_decay_curve(score_now, months, k) returns exactly `months` values
\* with value[i] = score_now * exp(-k*i), i = 0..months-1; the first value is
\* the score itself; main calls it with months = 12 and k = 0.22.
C16_CurveValues ==
    /\ Months = 12 /\ DecayK = 22
    /\ hout # <<>> =>
          LET vals == hout[1]
          IN  /\ Len(vals) = hin.months
              /\ hin.months >= 1 => vals[1] = hin.score_now * 10000
              /\ \A i \in 0..(hin.months - 1) :
                    vals[i + 1] = hin.score_now *
                        (IF hin.k = 0 THEN 10000 ELSE C16_Decay[i + 1])

\* C16 witness: score 1.0, three months, k = 0.22 gives 1.0, 0.8025, 0.6440
C16_Witness ==
    /\ hin = [score_now |-> 1000, months |-> 3, k |-> DecayK]
    /\ hout = <<<<10000000, 8025000, 6440000>>>>

\* the number of non-missing points of the series given to zscore
NonMissing == Cardinality({i \in 1..Len(hin.series) : ~hin.series[i].nan})

\* C17 as stated: zscore returns undefined whenever the count n of
\* non-missing points satisfies n < max(24, w/4), w/4 the exact quotient.
C17_ExactQuarter ==
    hout # <<>> =>
        (4 * NonMissing < Max2(96, hin.window) => isnan(hout[1]))

\* C17 amended: zscore returns undefined whenever n < max(24, floor(w/4)),
\* the quotient rounded down: that is whenever n < 24 or 4*(n+1) <= w. With
\* n >= 24 and 4*n <= w < 4*(n+1) a series whose values are not all equal
\* gets a number.
C17_FloorQuarter ==
    hout # <<>> =>
        /\ ((NonMissing < 24 \/ 4 * (NonMissing + 1) <= hin.window) => isnan(hout[1]))
        /\ (NonMissing >= 24 /\ hin.window >= 4 * NonMissing
              /\ hin.window < 4 * (NonMissing + 1)
              /\ (\E i, j \in 1..Len(hin.series) :
                     ~hin.series[i].nan /\ ~hin.series[j].nan
                        /\ hin.series[i] # hin.series[j])
                => ~isnan(hout[1]))

\* C17 witness: 25 non-missing points that are not all equal and window 106
\* (floor(106/4) = 26): undefined
C17_Witness ==
    /\ hout # <<>> /\ isnan(hout[1])
    /\ NonMissing = 25 /\ hin.window = 106
    /\ \E i, j \in 1..Len(hin.series) :
          ~hin.series[i].nan /\ ~hin.series[j].nan
             /\ hin.series[i] # hin.series[j]

\* positions of the trailing min(n, window) non-missing points of the series
TailIdx ==
    {i \in 1..Len(hin.series) :
        /\ ~hin.series[i].nan
        /\ Cardinality({j \in i..Len(hin.series) : ~hin.series[j].nan})
              <= hin.window}
LastIdx == CHOOSE i \in TailIdx : \A j \in TailIdx : j <= i
TailSum == Sum([i \in 1..Len(hin.series) |->
                  IF i \in TailIdx THEN hin.series[i].v ELSE 0])
TailSumSq == Sum([i \in 1..Len(hin.series) |->
                  IF i \in TailIdx THEN hin.series[i].v * hin.series[i].v ELSE 0])

HasValue(m) ==
    \E i \in 1..Len(hin) : hin[i].month = m /\ ~hin[i].value.nan
ValueOf(m) == hin[CHOOSE i \in 1..Len(hin) : hin[i].month = m].value.v

\* C18: yoy_from_level outputs a row for month m if and only if the input
\* holds a value for m and a value for the month 12 calendar months before m,
\* with yoy = (value[m] / value[m-12] - 1) * 100; every other month is
\* dropped, also with missing months or missing values in the input.
C18_CalendarYoy ==
    hout # <<>> =>
        LET out == hout[1]
            expected == {m \in 13..MaxYoyLen : HasValue(m) /\ HasValue(m - 12)}
        IN  /\ {out[i].month : i \in 1..Len(out)} = expected
            /\ Len(out) = Cardinality(expected)
            /\ \A i \in 1..Len(out) :
                  out[i].month \in expected =>
                      out[i].yoy = (ValueOf(out[i].month) * 10000)
                                      \div ValueOf(out[i].month - 12) - 10000

\* the months in which the frame given to to_monthly has an observation
Populated == {hin.df[i].date.m : i \in 1..Len(hin.df)}
\* the non-missing values observed in month m, as positions of the frame
ValuedAt(m) ==
    {i \in 1..Len(hin.df) : hin.df[i].date.m = m /\ ~hin.df[i].value.nan}

\* C19 as stated: to_monthly returns exactly one row for each calendar month
\* that contains an observation and no row for a month that contains none,
\* keyed by the first day of the month, ascending, for both aggregations and
\* for inputs with gaps of whole months.
C19_PopulatedMonthsOnly ==
    hout # <<>> =>
        LET out == hout[1]
        IN  /\ Len(out) = Cardinality(Populated)
            /\ {out[i].month.m : i \in 1..Len(out)} = Populated
            /\ \A i \in 1..Len(out) : out[i].month.d = 1
            /\ \A i, j \in 1..Len(out) :
                  i < j => out[i].month.m < out[j].month.m

\* C19 amended: to_monthly returns exactly one row for every calendar month
\* from the month of the first observation to the month of the last, keyed by
\* the first day of the month, ascending; a month of that range without an
\* observation (or with missing values only) gets a missing value, any other
\* month the last, or the mean, of its non-missing values; an empty input
\* gives an empty output.
C19_EveryMonthOfRange ==
    hout # <<>> =>
        LET out == hout[1]
        IN  /\ (Populated = {} => out = <<>>)
            /\ \A i \in 1..Len(out) : out[i].month.d = 1
            /\ \A i, j \in 1..Len(out) :
                  i < j => out[i].month.m < out[j].month.m
            /\ {out[i].month.m : i \in 1..Len(out)} =
                  {m \in 1..MaxObsMonths :
                      \E a, b \in Populated : a <= m /\ m <= b}
            /\ \A i \in 1..Len(out) :
                  LET at == ValuedAt(out[i].month.m)
                  IN  /\ (at = {} => isnan(out[i].value))
                      /\ (at # {} /\ hin.how = "last" =>
                            \E p \in at :
                               /\ \A q \in at : q <= p
                               /\ out[i].value = hin.df[p].value)
                      /\ (at # {} /\ hin.how = "mean" =>
                            /\ ~isnan(out[i].value)
                            /\ \A p \in at :
                                  Cardinality(at) * out[i].value.v =
                                     Sum([q \in 1..Len(hin.df) |->
                                            IF q \in at THEN hin.df[q].value.v
                                            ELSE 0]))

\* C19 witness: two observations in month 1, none in month 2, one in month 3,
\* aggregated by mean: three rows, the middle one with a missing value
C19_Witness ==
    /\ hin.how = "mean"
    /\ Populated = {1, 3}
    /\ Cardinality(ValuedAt(1)) = 2
    /\ hout = <<<<[month |-> [m |-> 1, d |-> 1], value |-> Num(116)],
                 [month |-> [m |-> 2, d |-> 1], value |-> NaN],
                 [month |-> [m |-> 3, d |-> 1], value |-> Num(302)]>>>>

\* the positions of the response holding the date t and the value string x
Sent(t, x) ==
    {i \in 1..Len(hin) : hin[i].date = [text |-> "date", t |-> t] /\ hin[i].value = x}
\* the rows of the returned frame dated t with value y
Got(t, y) ==
    {i \in 1..Len(hout[1]) : hout[1][i].date = t /\ hout[1][i].value = y}

\* every parseable date of the response is held by one observation only
DistinctDates ==
    \A i, j \in 1..Len(hin) :
        (i # j /\ hin[i].date.text = "date") => hin[i].date # hin[j].date

\* C21 as stated: the series returned by the fetcher has strictly increasing
\* timestamps (ascending, no two rows with the same timestamp) for every API
\* response;
\* rows whose date cannot be parsed are dropped and rows whose value is not
\* numeric are kept with a missing value.
C21_StrictlyIncreasing ==
    hout # <<>> =>
        LET out == hout[1]
        IN  /\ \A i, j \in 1..Len(out) : i < j => out[i].date < out[j].date
            /\ Len(out) = Cardinality({i \in 1..Len(hin) : hin[i].date.text = "date"})
            /\ \A t \in 1..MaxDate :
                  /\ Cardinality(Got(t, NaN)) =
                        Cardinality(Sent(t, [text |-> ".", v |-> 0]))
                  /\ \A v \in {5, 7} :
                        Cardinality(Got(t, Num(v))) =
                           Cardinality(Sent(t, [text |-> "number", v |-> v]))

\* C21 amended: the series returned by the fetcher is in ascending timestamp
\* order; the timestamps are strictly increasing when no two observations of
\* the response carry the same date (observations of equal date are all kept);
\* rows whose date cannot be parsed are dropped and rows whose value is not
\* numeric are kept with a missing value.
C21_Ascending ==
    hout # <<>> =>
        LET out == hout[1]
        IN  /\ \A i, j \in 1..Len(out) : i < j => out[i].date <= out[j].date
            /\ (DistinctDates =>
                  \A i, j \in 1..Len(out) : i < j => out[i].date < out[j].date)
            /\ Len(out) = Cardinality({i \in 1..Len(hin) : hin[i].date.text = "date"})
            /\ \A t \in 1..MaxDate :
                  /\ Cardinality(Got(t, NaN)) =
                        Cardinality(Sent(t, [text |-> ".", v |-> 0]))
                  /\ \A v \in {5, 7} :
                        Cardinality(Got(t, Num(v))) =
                           Cardinality(Sent(t, [text |-> "number", v |-> v]))

\* C21 witness: a response dated 2, junk, 1, the last with the value ".":
\* two rows, dated 1 (missing value) and 2
C21_Witness ==
    /\ hin = <<[date |-> [text |-> "date", t |-> 2], value |-> [text |-> "number", v |-> 5]],
               [date |-> [text |-> "junk", t |-> 0], value |-> [text |-> "number", v |-> 7]],
               [date |-> [text |-> "date", t |-> 1], value |-> [text |-> ".", v |-> 0]]>>
    /\ hout = <<<<[date |-> 1, value |-> NaN], [date |-> 2, value |-> Num(5)]>>>>

\* C22: in the success summary worst_driver is a driver with the minimum
\* contribution and best_driver one with the maximum; among ties the stable
\* sort over the indicator list order (CPI YoY, unemployment, policy rate,
\* yield curve, HY spread) makes worst the earliest-listed driver with the
\* minimum and best the latest-listed with the maximum.
C22_BestWorst ==
    /\ [k \in 1..NDrivers |-> driver_specs[k].key] =
          <<"CPI_YOY", "UNRATE", "FEDFUNDS", "T10Y2Y", "BAMLH0A0HYM2">>
    /\ hout # <<>> =>
          LET ds == hout[1].drivers
              sm == hout[1].summary
              lowest == {k \in 1..NDrivers :
                            \A j \in 1..NDrivers : ds[k].contribution <= ds[j].contribution}
              highest == {k \in 1..NDrivers :
                            \A j \in 1..NDrivers : ds[j].contribution <= ds[k].contribution}
          IN  /\ \E k \in lowest :
                    /\ \A j \in lowest : k <= j
                    /\ sm.worst_driver =
                          [key |-> driver_specs[k].key, contribution |-> ds[k].contribution]
              /\ \E k \in highest :
                    /\ \A j \in highest : j <= k
                    /\ sm.best_driver =
                          [key |-> driver_specs[k].key, contribution |-> ds[k].contribution]

\* C22 witness: all five contributions are equal (every z undefined): worst
\* is CPI YoY and best is HY spread
C22_Witness ==
    /\ hout # <<>>
    /\ \A k \in 1..NDrivers : isnan(hin[k])
    /\ hout[1].summary.worst_driver = [key |-> "CPI_YOY", contribution |-> 0]
    /\ hout[1].summary.best_driver = [key |-> "BAMLH0A0HYM2", contribution |-> 0]

\* C23: within one run's 12 projected rows, in month order: every score lies
\* in [-2, 2], has the sign of score_now and is no larger in absolute value
\* than the previous month's; the labels never contain both "bull" and
\* "bear", and after a "neutral" month every later month is "neutral".
C23_DecayTowardZero ==
    hout # <<>> =>
        LET rs == hout[1]
        IN  /\ Len(rs) = 12
            /\ \A m \in 1..Len(rs) :
                  /\ rs[m].mes = m
                  /\ rs[m].score >= -20000000 /\ rs[m].score <= 20000000
                  /\ (hin > 0 => rs[m].score > 0)
                  /\ (hin < 0 => rs[m].score < 0)
                  /\ (hin = 0 => rs[m].score = 0)
            /\ \A m \in 2..Len(rs) : Abs(rs[m].score) <= Abs(rs[m - 1].score)
            /\ ~(\E a, b \in 1..Len(rs) : rs[a].regime = "bull" /\ rs[b].regime = "bear")
            /\ \A a, b \in 1..Len(rs) :
                  (a < b /\ rs[a].regime = "neutral") => rs[b].regime = "neutral"

\* C23 witness: score_now -1.0: months 1..4 are "bear" (-1.0 .. -0.5169),
\* months 5..12 "neutral"
C23_Witness ==
    /\ hin = -1000
    /\ hout # <<>>
    /\ hout[1][4].regime = "bear" /\ hout[1][4].score = -5169000
    /\ hout[1][5].regime = "neutral"
    /\ hout[1][12].regime = "neutral"

\* C24: if two runs of main with different current scores overlap in time
\* against the same store, then once both have finished the 12 rows of the
\* target year all carry the projection of one and the same run.
C24_NoMixedTable ==
    \A r, q \in Runs :
        (r # q /\ score_now[r] # score_now[q] /\ Succeeded(r) /\ Succeeded(q)) =>
            \E w \in {r, q} :
                \A j \in TableIdx : table[j] = rows[w][table[j].mes]

\* C25: in the weekly calendar tab, after any sequence of previous-week /
\* next-week clicks and month or year changes, semana_actual is a valid index
\* into the week list of the selected month at the moment the list is
\* indexed: 0 <= semana_actual < number of weeks.
C25_WeekIndexValid ==
    tab2.state \in {"week", "IndexError"} =>
        /\ tab2.len = Len(obtener_semanas_del_mes(sidebar.anio, sidebar.mes))
        /\ 0 <= tab2.idx /\ tab2.idx < tab2.len

\* the impact records the events of `evs` rely on (obtener_impacto_evento,
\* 154-165, looks an event's impact up by the event's name)
ReliedOn(evs, imps) ==
    {i \in imps : \E ev \in evs : ev.evento_nombre = i.evento_tipo}

\* C26: eliminar_evento(evento_id, evento_nombre) removes the event with that
\* id and the impact records of that event only: every other event record and
\* every impact record another remaining event relies on (another event of
\* the same name included) is left unchanged; when it reports failure neither
\* the event nor its impact records have been removed.
C26_DeleteFrame ==
    [][ retorno' # <<>> =>
          LET call == retorno'[1]
              others == {ev \in eventos_unicos : ev.id # call.id}
          IN  /\ others \subseteq eventos_unicos'
              /\ ReliedOn(others, impacto_sectores) \subseteq impacto_sectores'
              /\ (call.ok => eventos_unicos' = others)
              /\ (~call.ok =>
                    /\ eventos_unicos' = eventos_unicos
                    /\ impacto_sectores' = impacto_sectores)
      ]_<<eventos_unicos, impacto_sectores, retorno>>

====
